---- MODULE Spec2Model ----
(***************************************************************************)
(* A model of ocr-rename: the conflict resolver, renamer and undo engine   *)
(* (renamer.py), the rate-limited concurrent analysis and the batch path   *)
(* (api_client.py), and the resume set (cli.py).                           *)
(***************************************************************************)
EXTENDS Integers, Sequences, FiniteSets, TLC

VARIABLES
    \* ---- renamer.py: the directory, the review records, rename_files, apply_undo
    caseSensitive,   \* whether the filesystem under pdf_dir distinguishes letter case
    dir,             \* pdf_dir: a set of [name, id]; id is the file behind the name
    dir0,            \* pdf_dir as it was before rename_files ran
    csv_entries,     \* the rows of the reviewed CSV handed to cmd_rename
    entries,         \* the review records handed to rename_files
    rpc,             \* position: "start", "idle", "renaming", "renamed", "undoing", "undone"
    dry_run,         \* rename_files' dry_run argument
    approved,        \* rename_files' local: the approved, resolved records
    ri,              \* index of the next record of the rename loop
    log_entries,     \* rename_files' local: the log built so far
    saved_log,       \* the rename-log files in output_dir (a sequence of logs)
    uj,              \* index of the next log entry of apply_undo's reversed loop
    reversed_count,  \* apply_undo's local
    undo_errors,     \* apply_undo's local `errors`
    undo_runs,       \* how many apply_undo runs have completed
    \* ---- api_client.py: analyze_realtime, its workers and the RateLimiter
    pdf_files,       \* analyze_realtime's argument: the files found, in order
    already_done,    \* analyze_realtime's argument: the resume set
    concurrency,     \* config.concurrency: the pool's max_workers
    apc,             \* main thread: "start", "collecting", "returned"
    queue,           \* the pool's work queue: submitted tasks no worker has taken
    wpc,             \* per worker: "idle", "wait", "locked", "extract", "await"
    wfile,           \* per worker: the file of its task
    lock_held,       \* RateLimiter.lock
    clock,           \* time.monotonic(), in ticks
    last_request,    \* RateLimiter.last_request
    wwake,           \* per worker: the time before which its sleep does not return
    grants,          \* the values last_request was given, in order
    sent,            \* the times at which requests went to the vision service
    completed,       \* results of finished futures the main thread has not collected
    rt_entries,      \* analyze_realtime's local `entries`
    extract_failed,  \* the files whose extraction or encoding raised
    parse_failed,    \* the files answered with text that is no JSON without its fences
    started,         \* the files of the tasks that workers have taken, in order
    \* ---- api_client.py: analyze_batch, the batch service, get_batch_results
    batch_files,     \* analyze_batch's argument: the files found, in order
    batch_done,      \* analyze_batch's argument: the resume set
    batch_todo,      \* analyze_batch's local files_to_process
    bi,              \* index of the next file of the preparation loop
    requests,        \* analyze_batch's local: the custom_ids of the requests built
    bpc,             \* "start", "preparing", "no_batch", "submitted", "retrieved"
    processing_status, \* the batch's state at the service
    result_stream,   \* the service's per-item results: [custom_id, resp]
    batch_not_ready, \* get_batch_results has answered "not done yet"
    batch_entries,   \* what get_batch_results returned
    batch_raised,    \* get_batch_results ended by an exception
    stream_read,     \* get_batch_results has asked the service for the item results
    \* ---- cli.py: get_already_done and the resume filter
    csv_rows,        \* the rows of the review CSV being read
    scanned,         \* how many review CSVs have been read
    done,            \* get_already_done's local
    has_real,        \* files with a non-error record in a readable CSV read so far
    has_error,       \* files with an ERROR or PARSE_ERROR record in such a CSV
    titles_of,       \* the titles of each file's rows in the CSVs scanned so far
    resume_pc,       \* "scanning", "scanned", "filtered"
    to_process,      \* files_to_process of the run that resumes
    \* ---- renamer.py: resolve_conflicts on its own
    rc_dir,          \* the names pdf_dir.iterdir() yields
    rc_entries,      \* the approved records handed to resolve_conflicts
    rc_seen,         \* resolve_conflicts' local `seen`
    rc_before,       \* the keys of `seen` as each record found them, in order
    rc_resolved,     \* resolve_conflicts' local `resolved`
    rc_pc,           \* "seed", "loop", "returned"
    \* ---- review_file.py: build_new_filename on its own
    sn_title,        \* build_new_filename's argument `title`
    sn_author,       \* build_new_filename's argument `author`
    sn_name,         \* what build_new_filename returned
    sn_pc,           \* "call", "returned"
    \* ---- review_file.py: make_entry, write_csv, read_csv
    rv_results,      \* the parsed results of one run, in order
    rv_entries,      \* the records make_entry built from them
    rv_csv,          \* the rows of the CSV file write_csv wrote (cells are text)
    rv_read,         \* the records read_csv returned
    rv_pc            \* "results", "made", "raised", "written", "read"

renameVars == <<caseSensitive, dir, dir0, csv_entries, entries, rpc, dry_run, approved, ri,
                log_entries, saved_log, uj, reversed_count, undo_errors, undo_runs>>

realtimeVars == <<pdf_files, already_done, concurrency, apc, queue, wpc, wfile,
                  lock_held, clock, last_request, wwake, grants, sent, completed,
                  rt_entries, extract_failed, parse_failed, started>>

batchVars == <<batch_files, batch_done, batch_todo, bi, requests, bpc,
               processing_status, result_stream, batch_not_ready, batch_entries,
               batch_raised, stream_read>>

resumeVars == <<csv_rows, scanned, done, has_real, has_error, titles_of, resume_pc,
               to_process>>

resolveVars == <<rc_dir, rc_entries, rc_seen, rc_before, rc_resolved, rc_pc>>

sanitizeVars == <<sn_title, sn_author, sn_name, sn_pc>>

reviewVars == <<rv_results, rv_entries, rv_csv, rv_read, rv_pc>>

\* The variables of the specifications of single functions.
pureVars == <<resolveVars, sanitizeVars, reviewVars>>

\* The variables of the specifications of whole commands.
programVars == <<renameVars, realtimeVars, batchVars, resumeVars>>

vars == <<programVars, pureVars>>

----------------------------------------------------------------------------
\* Bounds of the model.

\* The longest list of review records handed to rename_files.
MaxEntries == 2

\* The most files analyze_realtime is given.
MaxFiles == 3

\* The largest worker pool (config.concurrency).
MaxWorkers == 2

\* The last tick of the clock.
MaxTime == 6

\* RateLimiter's max_per_minute, 50 in the program, scaled down.
MaxPerMinute == 2

\* Clock ticks in one interval of the rate limiter (60 / max_per_minute seconds).
Interval == 2

\* The most files analyze_batch is given.
MaxBatchFiles == 3

\* The most review CSVs in output_dir, the most rows in one of them, and the
\* number of files they are about.
MaxDatasets == 2
MaxRows == 2
MaxResumeFiles == 2

----------------------------------------------------------------------------
\* File names.  A name is [stem, up, sfx, pdf]: `up` tells the spelling with
\* upper-case letters from the all-lower-case one, `sfx` is the chain of
\* " (N)" collision suffixes before the extension, `pdf` tells a name whose
\* suffix is .pdf (in any letter case) from any other name.

Name(stem, up, pdf) == [stem |-> stem, up |-> up, sfx |-> <<>>, pdf |-> pdf]

\* str.lower()
Lower(n) == [n EXCEPT !.up = FALSE]

\* f"{name[:-4]} ({counter}).pdf"
Candidate(n, counter) ==
    [stem |-> n.stem, up |-> n.up, sfx |-> Append(n.sfx, counter), pdf |-> TRUE]

\* Names of files that analysis saw (glob *.pdf), in two spellings for stem "a".
OrigNames == {Name("a", FALSE, TRUE), Name("a", TRUE, TRUE), Name("b", FALSE, TRUE)}

\* A name whose encoding is longer than the filesystem's limit for one name: a
\* 240-character title in a multi-byte script, plus ".pdf".
LongName == Name("long", FALSE, TRUE)

\* Names a record can propose.
NewNames == OrigNames \cup {LongName}

\* Names the directory can hold: the .pdf names and one file that is no .pdf.
DirNames == OrigNames \cup {Name("b", FALSE, FALSE)}

\* The approve column.  A cell is a sequence of characters.
Yes == <<"y", "e", "s">>
Review == <<"r", "e", "v", "i", "e", "w">>

\* The cells a reviewed CSV holds in the approve column: yes, " Yes ", review.
ApproveCells == {Yes, <<" ", "Y", "e", "s", " ">>, Review}

\* str.lower() on the characters of the approve column
lower(str) ==
    [i \in 1..Len(str) |->
        IF str[i] = "Y" THEN "y" ELSE IF str[i] = "E" THEN "e"
        ELSE IF str[i] = "S" THEN "s" ELSE str[i]]

\* str.strip()
RECURSIVE strip(_)
strip(str) ==
    IF str = <<>> THEN str
    ELSE IF Head(str) = " " THEN strip(Tail(str))
    ELSE IF str[Len(str)] = " " THEN strip(SubSeq(str, 1, Len(str) - 1))
    ELSE str

\* read_csv line 108: row["approve"].strip().lower()
NormalizeApprove(cell) == lower(strip(cell))

\* The values of approve in the records read_csv returns.
ApproveValues == {NormalizeApprove(cell) : cell \in ApproveCells}

ReviewEntry == [original_filename : OrigNames, new_filename : NewNames,
                approve : ApproveValues]

\* The rows of a reviewed CSV, as far as rename_files uses them.
CsvEntry == [original_filename : OrigNames, new_filename : NewNames,
             approve : ApproveCells]

\* read_csv, lines 96-113, on those rows
ReadEntries(rows) ==
    [i \in 1..Len(rows) |->
        [rows[i] EXCEPT !.approve = NormalizeApprove(rows[i].approve)]]

----------------------------------------------------------------------------
\* The filesystem under pdf_dir.

SameFsName(cs, x, y) == IF cs THEN x = y ELSE Lower(x) = Lower(y)

\* The directory entries a path resolves to (at most one).
Lookup(d, cs, n) == {e \in d : SameFsName(cs, e.name, n)}

\* Path.exists()
Exists(d, cs, n) == Lookup(d, cs, n) # {}

\* os.rename raises OSError for a target name the filesystem cannot hold.
OsRejects(n) == n.stem = LongName.stem

\* Path.rename(dst) on a POSIX filesystem, src existing: the file behind src
\* gets the name dst, silently replacing whatever file was behind dst.
FsRename(d, cs, src, dst) ==
    LET s == CHOOSE e \in Lookup(d, cs, src) : TRUE
    IN  ((d \ {s}) \ Lookup(d, cs, dst)) \cup {[name |-> dst, id |-> s.id]}

\* A directory that can exist: one entry per name, and on a case-insensitive
\* filesystem no two names that differ only in letter case.
WellFormedDir(d, cs) ==
    \A e1, e2 \in d : SameFsName(cs, e1.name, e2.name) => e1 = e2

\* The file behind each name is named after its first name.
DirOf(names) == {[name |-> n, id |-> n] : n \in names}

----------------------------------------------------------------------------
\* resolve_conflicts

\* seen: a function from lower-cased names to 1.
SeenAdd(seen, key) == [k \in (DOMAIN seen) \cup {key} |-> 1]

\* lines 12-14: every directory entry whose suffix, lower-cased, is .pdf
SeedSeen(d) == [k \in {Lower(e.name) : e \in {x \in d : x.name.pdf}} |-> 1]

\* The counter loop stopping at once: the first candidate is taken as it is.
FirstFreeUnchecked(seen, name, counter) == counter

\* lines 30-35: the first counter whose candidate is not registered
RECURSIVE FirstFree(_, _, _)
FirstFree(seen, name, counter) ==
    IF Lower(Candidate(name, counter)) \notin DOMAIN seen
    THEN counter
    ELSE FirstFree(seen, name, counter + 1)

\* lines 17-41 for one record: <<the record as resolved, seen afterwards>>
ResolveOne(entry, seen) ==
    LET name == entry.new_filename
        key  == Lower(name)
    IN  IF key = Lower(entry.original_filename)
        THEN <<entry, IF key \notin DOMAIN seen THEN SeenAdd(seen, key) ELSE seen>>
        ELSE IF key \in DOMAIN seen
             THEN LET c == Candidate(name, FirstFree(seen, name, seen[key] + 1))
                  IN  <<[entry EXCEPT !.new_filename = c], SeenAdd(seen, Lower(c))>>
             ELSE <<entry, SeenAdd(seen, key)>>

RECURSIVE ResolveFrom(_, _, _)
ResolveFrom(es, seen, resolved) ==
    IF es = <<>>
    THEN resolved
    ELSE LET r == ResolveOne(Head(es), seen)
         IN  ResolveFrom(Tail(es), r[2], Append(resolved, r[1]))

resolve_conflicts(d, es) == ResolveFrom(es, SeedSeen(d), <<>>)

----------------------------------------------------------------------------
\* rename_files

\* The approval filter lost: every record counts as approved.
ApprovedAll(es) == es

\* line 49
Approved(es) == SelectSeq(es, LAMBDA e : e.approve = Yes)

LogEntry(entry, status) ==
    [original |-> entry.original_filename, new |-> entry.new_filename,
     status |-> status]

\* cmd_rename, cli.py line 93: the reviewed CSV is read
ReadReviewed ==
    /\ rpc = "start"
    /\ entries' = ReadEntries(csv_entries)
    /\ rpc' = "idle"
    /\ UNCHANGED <<caseSensitive, dir, dir0, csv_entries, dry_run, approved, ri,
                   log_entries, saved_log, uj, reversed_count, undo_errors,
                   undo_runs>>

\* lines 49-55
RenameStart ==
    /\ rpc = "idle"
    /\ \E dr \in BOOLEAN : dry_run' = dr
    /\ approved' = resolve_conflicts(dir, Approved(entries))
    /\ log_entries' = <<>>
    /\ ri' = 1
    /\ rpc' = "renaming"
    /\ UNCHANGED <<caseSensitive, dir, dir0, csv_entries, entries, saved_log, uj,
                   reversed_count, undo_errors, undo_runs>>

\* lines 82-91: the rename itself, <<directory afterwards, status>>
TryRename(d, cs, src, dst) ==
    IF OsRejects(dst)
    THEN <<d, "error">>
    ELSE <<FsRename(d, cs, src, dst), "renamed">>

\* Execute with the dry_run test lost: the rename is performed all the same.
ExecuteIgnoringDryRun(d, cs, dr, entry) ==
    LET r == TryRename(d, cs, entry.original_filename, entry.new_filename)
    IN  <<r[1], IF dr THEN "dry_run" ELSE r[2]>>

\* lines 77-91: what one record that is not skipped does
Execute(d, cs, dr, entry) ==
    IF dr
    THEN <<d, "dry_run">>
    ELSE TryRename(d, cs, entry.original_filename, entry.new_filename)

\* lines 57-93: one iteration of the loop
RenameStep ==
    /\ rpc = "renaming"
    /\ ri <= Len(approved)
    /\ LET entry == approved[ri]
           src   == entry.original_filename
       IN  IF \/ ~Exists(dir, caseSensitive, src)
              \/ src = entry.new_filename
           THEN UNCHANGED <<dir, log_entries>>
           ELSE LET r == Execute(dir, caseSensitive, dry_run, entry)
                IN  /\ dir' = r[1]
                    /\ log_entries' = Append(log_entries, LogEntry(entry, r[2]))
    /\ ri' = ri + 1
    /\ UNCHANGED <<caseSensitive, dir0, csv_entries, entries, rpc, dry_run, approved,
                   saved_log, uj, reversed_count, undo_errors, undo_runs>>

\* SavesLog with the dry_run test lost.
SavesLogDryRunToo(log, dr) == log # <<>>

\* lines 98-100, output_dir given: whether the log is written
SavesLog(log, dr) == log # <<>> /\ ~dr

\* lines 95-102
RenameFinish ==
    /\ rpc = "renaming"
    /\ ri > Len(approved)
    /\ saved_log' = IF SavesLog(log_entries, dry_run)
                    THEN Append(saved_log, log_entries)
                    ELSE saved_log
    /\ rpc' = "renamed"
    /\ UNCHANGED <<caseSensitive, dir, dir0, csv_entries, entries, dry_run, approved, ri,
                   log_entries, uj, reversed_count, undo_errors, undo_runs>>

\* The process is terminated inside the loop of lines 57-93 (a signal, a
\* KeyboardInterrupt, which no handler of rename_files catches): lines 95-102
\* are never reached, and the log entries built so far are lost with the process.
RenameTerminated ==
    /\ rpc = "renaming"
    /\ rpc' = "terminated"
    /\ UNCHANGED <<caseSensitive, dir, dir0, csv_entries, entries, dry_run, approved, ri,
                   log_entries, saved_log, uj, reversed_count, undo_errors, undo_runs>>

----------------------------------------------------------------------------
\* apply_undo, on the log the rename run saved

UndoLog == saved_log[1]

\* lines 143-147
UndoStart ==
    /\ rpc \in {"renamed", "undone"}
    /\ saved_log # <<>>
    /\ undo_runs < 2
    /\ uj' = Len(UndoLog)
    /\ reversed_count' = 0
    /\ undo_errors' = 0
    /\ rpc' = "undoing"
    /\ UNCHANGED <<caseSensitive, dir, dir0, csv_entries, entries, dry_run, approved, ri,
                   log_entries, saved_log, undo_runs>>

\* line 150
Actionable(entry) == entry.status = "renamed"

\* The loop over the log from its first entry to its last.
UndoStepForward ==
    /\ rpc = "undoing"
    /\ uj >= 1
    /\ LET entry == UndoLog[Len(UndoLog) + 1 - uj]
       IN  IF ~Actionable(entry) \/ ~Exists(dir, caseSensitive, entry.new)
           THEN UNCHANGED <<dir, reversed_count, undo_errors>>
           ELSE IF OsRejects(entry.original)
                THEN /\ undo_errors' = undo_errors + 1
                     /\ UNCHANGED <<dir, reversed_count>>
                ELSE /\ dir' = FsRename(dir, caseSensitive, entry.new, entry.original)
                     /\ reversed_count' = reversed_count + 1
                     /\ UNCHANGED undo_errors
    /\ uj' = uj - 1
    /\ UNCHANGED <<caseSensitive, dir0, csv_entries, entries, rpc, dry_run, approved,
                   ri, log_entries, saved_log, undo_runs>>

\* lines 149-166: one iteration of the reversed loop
UndoStep ==
    /\ rpc = "undoing"
    /\ uj >= 1
    /\ LET entry == UndoLog[uj]
       IN  IF ~Actionable(entry) \/ ~Exists(dir, caseSensitive, entry.new)
           THEN UNCHANGED <<dir, reversed_count, undo_errors>>
           ELSE IF OsRejects(entry.original)
                THEN /\ undo_errors' = undo_errors + 1
                     /\ UNCHANGED <<dir, reversed_count>>
                ELSE /\ dir' = FsRename(dir, caseSensitive, entry.new, entry.original)
                     /\ reversed_count' = reversed_count + 1
                     /\ UNCHANGED undo_errors
    /\ uj' = uj - 1
    /\ UNCHANGED <<caseSensitive, dir0, csv_entries, entries, rpc, dry_run, approved, ri,
                   log_entries, saved_log, undo_runs>>

\* line 168
UndoFinish ==
    /\ rpc = "undoing"
    /\ uj = 0
    /\ undo_runs' = undo_runs + 1
    /\ rpc' = "undone"
    /\ UNCHANGED <<caseSensitive, dir, dir0, csv_entries, entries, dry_run, approved, ri,
                   log_entries, saved_log, uj, reversed_count, undo_errors>>

----------------------------------------------------------------------------
\* The rename / undo specification.

\* rename_files and apply_undo not running.
RenameIdle ==
    /\ caseSensitive = TRUE
    /\ dir = {}
    /\ dir0 = {}
    /\ csv_entries = <<>>
    /\ entries = <<>>
    /\ rpc = "off"
    /\ dry_run = FALSE
    /\ approved = <<>>
    /\ ri = 1
    /\ log_entries = <<>>
    /\ saved_log = <<>>
    /\ uj = 0
    /\ reversed_count = 0
    /\ undo_errors = 0
    /\ undo_runs = 0

\* analyze_realtime not running.
RealtimeIdle ==
    /\ pdf_files = <<>>
    /\ already_done = {}
    /\ concurrency = 1
    /\ apc = "off"
    /\ queue = <<>>
    /\ wpc = [w \in 1..1 |-> "idle"]
    /\ wfile = [w \in 1..1 |-> 0]
    /\ lock_held = FALSE
    /\ clock = 0
    /\ last_request = 0
    /\ wwake = [w \in 1..1 |-> 0]
    /\ grants = <<>>
    /\ sent = <<>>
    /\ completed = {}
    /\ rt_entries = <<>>
    /\ extract_failed = {}
    /\ parse_failed = {}
    /\ started = <<>>

\* analyze_batch and get_batch_results not running.
BatchIdle ==
    /\ batch_files = <<>>
    /\ batch_done = {}
    /\ batch_todo = <<>>
    /\ bi = 1
    /\ requests = <<>>
    /\ bpc = "off"
    /\ processing_status = "none"
    /\ result_stream = <<>>
    /\ batch_not_ready = FALSE
    /\ batch_entries = <<>>
    /\ batch_raised = FALSE
    /\ stream_read = FALSE

\* get_already_done not running.
ResumeIdle ==
    /\ csv_rows = <<>>
    /\ scanned = 0
    /\ done = {}
    /\ has_real = {}
    /\ has_error = {}
    /\ titles_of = <<>>
    /\ resume_pc = "off"
    /\ to_process = <<>>

\* resolve_conflicts not running on its own.
ResolveIdle ==
    /\ rc_dir = {}
    /\ rc_entries = <<>>
    /\ rc_seen = <<>>
    /\ rc_before = <<>>
    /\ rc_resolved = <<>>
    /\ rc_pc = "off"

\* build_new_filename not running on its own.
SanitizeIdle ==
    /\ sn_title = <<>>
    /\ sn_author = <<>>
    /\ sn_name = <<>>
    /\ sn_pc = "off"

\* make_entry, write_csv and read_csv not running on their own.
ReviewIdle ==
    /\ rv_results = <<>>
    /\ rv_entries = <<>>
    /\ rv_csv = <<>>
    /\ rv_read = <<>>
    /\ rv_pc = "off"

\* No specification of a single function running.
PureIdle == ResolveIdle /\ SanitizeIdle /\ ReviewIdle

EntryLists == UNION {[1..n -> CsvEntry] : n \in 0..MaxEntries}

\* Records as analysis writes them: one record per file it found in pdf_dir, the
\* file's name spelled as the directory spells it.  A file may have been removed
\* since (its record is then stale); none has been re-spelled.
RecordsOf(es, d, cs) ==
    /\ \A i, k \in 1..Len(es) :
         i # k => ~SameFsName(cs, es[i].original_filename, es[k].original_filename)
    /\ \A i \in 1..Len(es) : \A e \in Lookup(d, cs, es[i].original_filename) :
         e.name = es[i].original_filename

RenameInit ==
    /\ caseSensitive \in BOOLEAN
    /\ \E names \in SUBSET DirNames :
         /\ dir = DirOf(names)
         /\ WellFormedDir(dir, caseSensitive)
    /\ dir0 = dir
    /\ csv_entries \in EntryLists
    /\ RecordsOf(csv_entries, dir, caseSensitive)
    /\ entries = <<>>
    /\ rpc = "start"
    /\ dry_run = FALSE
    /\ approved = <<>>
    /\ ri = 1
    /\ log_entries = <<>>
    /\ saved_log = <<>>
    /\ uj = 0
    /\ reversed_count = 0
    /\ undo_errors = 0
    /\ undo_runs = 0
    /\ RealtimeIdle
    /\ BatchIdle
    /\ ResumeIdle
    /\ PureIdle

RenameNext ==
    \/ ReadReviewed /\ UNCHANGED <<realtimeVars, batchVars, resumeVars, pureVars>>
    \/ RenameStart /\ UNCHANGED <<realtimeVars, batchVars, resumeVars, pureVars>>
    \/ RenameStep /\ UNCHANGED <<realtimeVars, batchVars, resumeVars, pureVars>>
    \/ RenameFinish /\ UNCHANGED <<realtimeVars, batchVars, resumeVars, pureVars>>
    \/ RenameTerminated /\ UNCHANGED <<realtimeVars, batchVars, resumeVars, pureVars>>
    \/ UndoStart /\ UNCHANGED <<realtimeVars, batchVars, resumeVars, pureVars>>
    \/ UndoStep /\ UNCHANGED <<realtimeVars, batchVars, resumeVars, pureVars>>
    \/ UndoFinish /\ UNCHANGED <<realtimeVars, batchVars, resumeVars, pureVars>>

SpecRename == RenameInit /\ [][RenameNext]_vars

----------------------------------------------------------------------------
\* resolve_conflicts on its own, record by record.

\* The longest list of approved records handed to resolve_conflicts here.
MaxResolve == 3

\* "Book.pdf"
Book == Name("book", TRUE, TRUE)

\* Names pdf_dir can hold: Book.pdf, Book (2).pdf, Book (3).pdf and a file
\* named Book that is no .pdf.
RcDirNames ==
    {Book, Candidate(Book, 2), Candidate(Book, 3), Name("book", TRUE, FALSE)}

\* Original filenames of the records.
RcOrigNames ==
    {Name("x", FALSE, TRUE), Name("y", FALSE, TRUE), Name("z", FALSE, TRUE), Book}

\* Names the records propose: Book.pdf, book.pdf, Book (2).pdf, New.pdf.
RcNewNames == {Book, Lower(Book), Candidate(Book, 2), Name("new", TRUE, TRUE)}

RcEntry == [original_filename : RcOrigNames, new_filename : RcNewNames,
            approve : {Yes}]

\* Lists of records about distinct files.
RcEntryLists ==
    {es \in UNION {[1..n -> RcEntry] : n \in 0..MaxResolve} :
        \A i, k \in 1..Len(es) :
            i # k => es[i].original_filename # es[k].original_filename}

\* lines 10-16
RcSeed ==
    /\ rc_pc = "seed"
    /\ rc_seen' = SeedSeen(DirOf(rc_dir))
    /\ rc_pc' = "loop"
    /\ UNCHANGED <<rc_dir, rc_entries, rc_before, rc_resolved>>

\* lines 17-41: one iteration of the loop
RcStep ==
    /\ rc_pc = "loop"
    /\ Len(rc_resolved) < Len(rc_entries)
    /\ LET r == ResolveOne(rc_entries[Len(rc_resolved) + 1], rc_seen)
       IN  /\ rc_resolved' = Append(rc_resolved, r[1])
           /\ rc_seen' = r[2]
    /\ rc_before' = Append(rc_before, DOMAIN rc_seen)
    /\ UNCHANGED <<rc_dir, rc_entries, rc_pc>>

\* line 43
RcReturn ==
    /\ rc_pc = "loop"
    /\ Len(rc_resolved) = Len(rc_entries)
    /\ rc_pc' = "returned"
    /\ UNCHANGED <<rc_dir, rc_entries, rc_seen, rc_before, rc_resolved>>

ResolveInit ==
    /\ rc_dir \in SUBSET RcDirNames
    /\ rc_entries \in RcEntryLists
    /\ rc_seen = <<>>
    /\ rc_before = <<>>
    /\ rc_resolved = <<>>
    /\ rc_pc = "seed"
    /\ RenameIdle
    /\ RealtimeIdle
    /\ BatchIdle
    /\ ResumeIdle
    /\ SanitizeIdle
    /\ ReviewIdle

ResolveNext ==
    \/ RcSeed /\ UNCHANGED <<programVars, sanitizeVars, reviewVars>>
    \/ RcStep /\ UNCHANGED <<programVars, sanitizeVars, reviewVars>>
    \/ RcReturn /\ UNCHANGED <<programVars, sanitizeVars, reviewVars>>

SpecResolve == ResolveInit /\ [][ResolveNext]_vars

----------------------------------------------------------------------------
\* Review records (review_file.py) and what the vision service answers.

\* CONFIDENCE_THRESHOLD, in tenths.
ConfidenceThreshold == 8

\* Confidence values, in tenths, that a well-formed answer carries.
Confidences == {9}

\* The text of a response, line by line.  A line is a markdown fence (it
\* starts with ```), a JSON object with a title and a numeric confidence, a
\* JSON value make_entry cannot use (not an object, or an object with a
\* non-numeric confidence or a null title), or text that is no JSON.
Lines == {"fence", "object", "unusable", "garbage"}

\* The texts the service answers with: the bare object, the object in fences,
\* prose, prose in fences, an unusable value, prose before a fenced object,
\* and the empty text.
Texts ==
    {<<"object">>, <<"fence", "object", "fence">>, <<"garbage">>,
     <<"fence", "garbage", "fence">>, <<"unusable">>,
     <<"garbage", "fence", "object", "fence">>, <<>>}

\* lines 37-42: the fence lines are removed when the text starts with one
StripFences(text) ==
    IF text # <<>> /\ text[1] = "fence"
    THEN SelectSeq(text, LAMBDA l : l # "fence")
    ELSE text

\* json.loads on the joined lines: <<the value>>, or <<>> for JSONDecodeError
\* (no value, text that is no JSON, or anything after the first value)
json_loads(lines) ==
    IF Len(lines) = 1 /\ lines[1] \in {"object", "unusable"} THEN lines ELSE <<>>

\* lines 34-43
_parse_response(text) == json_loads(StripFences(text))

\* Whether a text is one JSON value once its fence lines are left out.
JsonWithoutFences(text) ==
    LET rest == SelectSeq(text, LAMBDA l : l # "fence")
    IN  Len(rest) = 1 /\ rest[1] # "garbage"

\* What the service returns for one request: a message with a text (and, in a
\* usable object, a confidence), or no message: the call itself fails
\* (realtime), or the item's result type is not "succeeded" (batch).
Responses ==
    [kind : {"message"}, text : {t \in Texts : _parse_response(t) = <<"object">>},
     confidence : Confidences]
      \cup [kind : {"message"},
            text : {t \in Texts : _parse_response(t) # <<"object">>},
            confidence : {0}]
      \cup [kind : {"service_error"}, text : {<<>>}, confidence : {0}]

\* make_entry with the threshold lost: every record is approved.
make_entry_approving(original_filename, title, confidence, notes) ==
    [original_filename |-> original_filename,
     suggested_title   |-> title,
     confidence        |-> confidence,
     approve           |-> "yes",
     notes             |-> notes]

\* review_file.py lines 45-63, the fields the model keeps.  `notes` is "" for
\* the notes of an answer, "parser message" for text holding the
\* JSONDecodeError's message, "error message" for text holding another
\* exception's message or the batch item's result type.
make_entry(original_filename, title, confidence, notes) ==
    [original_filename |-> original_filename,
     suggested_title   |-> title,
     confidence        |-> confidence,
     approve |-> IF confidence >= ConfidenceThreshold THEN "yes" ELSE "review",
     notes             |-> notes]

\* A placeholder where no response was received.
NoResponse == [kind |-> "service_error", text |-> <<>>, confidence |-> 0]

\* json.loads raises JSONDecodeError
ParseRaises(resp) == _parse_response(resp.text) = <<>>

\* make_entry raises on the parsed value
MakeEntryRaises(resp) == _parse_response(resp.text) = <<"unusable">>

\* analyze_single returning None for a file it could not analyze.
analyze_single_none_on_error(name, extracted, resp) ==
    IF ~extracted \/ resp.kind = "service_error" \/ ParseRaises(resp)
       \/ MakeEntryRaises(resp)
    THEN <<>>
    ELSE <<make_entry(name, "Title", resp.confidence, "")>>

\* analyze_single with the JSONDecodeError handler lost: the error falls to
\* the handler of every other exception.
analyze_single_no_parse_handler(name, extracted, resp) ==
    IF ~extracted \/ resp.kind = "service_error" \/ ParseRaises(resp)
       \/ MakeEntryRaises(resp)
    THEN <<make_entry(name, "ERROR", 0, "error message")>>
    ELSE <<make_entry(name, "Title", resp.confidence, "")>>

\* analyze_single, lines 49-99: the result as a sequence, <<>> for None.
\* `extracted` tells whether extract_first_pages and pdf_to_base64 returned.
analyze_single(name, extracted, resp) ==
    IF ~extracted \/ resp.kind = "service_error"
    THEN <<make_entry(name, "ERROR", 0, "error message")>>
    ELSE IF ParseRaises(resp)
         THEN <<make_entry(name, "PARSE_ERROR", 0, "parser message")>>
         ELSE IF MakeEntryRaises(resp)
              THEN <<make_entry(name, "ERROR", 0, "error message")>>
              ELSE <<make_entry(name, "Title", resp.confidence, "")>>

----------------------------------------------------------------------------
\* sanitize_filename and build_new_filename (review_file.py).  A string is a
\* sequence of characters.

\* line 25: the characters sanitize_filename removes
Invalid == {"<", ">", ":", "\"", "/", "\\", "|", "?", "*"}

\* The length sanitize_filename truncates to, 240 in the program, scaled down.
NameLimit == 6

\* The longest title build_new_filename is given here.
MaxTitleLen == 4

\* The characters of the titles: an ordinary one, two invalid ones, a space.
TitleChars == {"a", ":", "*", " "}

TitleStrings == UNION {[1..n -> TitleChars] : n \in 0..MaxTitleLen}

Unknown == <<"U", "n", "k", "n", "o", "w", "n">>

AuthorStrings == {<<>>, Unknown, <<"b">>, <<"b", "/">>, <<" ", "b">>}

\* lines 26-27
RemoveInvalid(name) == SelectSeq(name, LAMBDA ch : ch \notin Invalid)

\* line 29, " ".join(name.split()): `out` is what has been joined so far,
\* `pending` tells that whitespace followed it
RECURSIVE CollapseFrom(_, _, _)
CollapseFrom(rest, out, pending) ==
    IF rest = <<>>
    THEN out
    ELSE IF Head(rest) = " "
         THEN CollapseFrom(Tail(rest), out, out # <<>>)
         ELSE CollapseFrom(Tail(rest),
                           Append(IF pending THEN Append(out, " ") ELSE out, Head(rest)),
                           FALSE)

\* lines 31-32
Truncate(name) == IF Len(name) > NameLimit THEN SubSeq(name, 1, NameLimit) ELSE name

\* sanitize_filename with the truncation lost.
sanitize_filename_untruncated(name) == CollapseFrom(RemoveInvalid(name), <<>>, FALSE)

\* lines 23-33
sanitize_filename(name) == Truncate(CollapseFrom(RemoveInvalid(name), <<>>, FALSE))

\* ".pdf"
Pdf == <<".", "p", "d", "f">>

\* lines 36-42, for a title and an author that are strings
build_new_filename(title, author) ==
    LET name == IF author # <<>> /\ author # Unknown
                THEN title \o <<" ", "-", " ">> \o author
                ELSE title
    IN  sanitize_filename(name) \o Pdf

\* build_new_filename is called and returns
BuildNewFilename ==
    /\ sn_pc = "call"
    /\ sn_name' = build_new_filename(sn_title, sn_author)
    /\ sn_pc' = "returned"
    /\ UNCHANGED <<sn_title, sn_author>>

SanitizeInit ==
    /\ sn_title \in TitleStrings
    /\ sn_author \in AuthorStrings
    /\ sn_name = <<>>
    /\ sn_pc = "call"
    /\ RenameIdle
    /\ RealtimeIdle
    /\ BatchIdle
    /\ ResumeIdle
    /\ ResolveIdle
    /\ ReviewIdle

SanitizeNext == BuildNewFilename /\ UNCHANGED <<programVars, resolveVars, reviewVars>>

SpecSanitize == SanitizeInit /\ [][SanitizeNext]_vars

----------------------------------------------------------------------------
\* make_entry, write_csv and read_csv (review_file.py) on the values of a
\* parsed result.  A value is absent (the key is missing), null (None), a
\* string, or a number; confidences are in tenths.  The text str() gives a
\* number n is the string <<"#">> with n kept beside it.

\* The most results of one run.
MaxResults == 2

Absent == [t |-> "absent", s |-> <<>>, n |-> 0]
Null == [t |-> "null", s |-> <<>>, n |-> 0]
Str(x) == [t |-> "str", s |-> x, n |-> 0]
Num(k) == [t |-> "num", s |-> <<>>, n |-> k]
NumText(k) == [t |-> "str", s |-> <<"#">>, n |-> k]

\* The results a parsed answer can hold.
Results ==
    [title      : {Str(<<"T">>), Null},
     author     : {Absent, Str(<<"A">>)},
     confidence : {Absent, Num(7), Num(8), Num(9)},
     language   : {Absent, Null, Str(<<"e", "n">>)},
     edition    : {Absent, Null},
     notes      : {Absent, Str(<<"n">>)}]

\* dict.get(key, default)
Get(v, default) == IF v = Absent THEN default ELSE v

\* bool(v)
Truthy(v) ==
    \/ v.t = "str" /\ v.s # <<>>
    \/ v.t = "num" /\ v.n # 0

\* dict.get(key) or ""
GetOrEmpty(v) == IF Truthy(v) THEN v ELSE Str(<<>>)

\* f"{v}"
Format(v) ==
    IF v.t = "str" THEN v.s
    ELSE IF v.t = "num" THEN <<"#">>
    ELSE <<"N", "o", "n", "e">>

\* float(v): <<the number>>, or <<>> when it raises
Float(v) ==
    IF v.t = "num" THEN <<v>>
    ELSE IF v.t = "str" /\ v.s = <<"#">> THEN <<Num(v.n)>>
    ELSE <<>>

\* line 50, for any title and author: <<the name>>, or <<>> when
\* sanitize_filename is handed a value that is no string and raises
NewFilenameOf(title, author) ==
    IF Truthy(author) /\ author # Str(Unknown)
    THEN <<Str(build_new_filename(Format(title), Format(author)))>>
    ELSE IF title.t = "str"
         THEN <<Str(build_new_filename(title.s, <<>>))>>
         ELSE <<>>

\* The approval with the boundary value left out.
ApprovalAboveThreshold(confidence) ==
    IF confidence > ConfidenceThreshold THEN "yes" ELSE "review"

\* line 51
Approval(confidence) ==
    IF confidence >= ConfidenceThreshold THEN "yes" ELSE "review"

\* The characters of an approval.
ApproveText(approve) == IF approve = "yes" THEN Yes ELSE Review

\* lines 45-63: <<the record>>, or <<>> when make_entry raises
MakeEntry(original_filename, result) ==
    LET title      == Get(result.title, Str(Unknown))
        author     == Get(result.author, Str(Unknown))
        confidence == Float(Get(result.confidence, Num(0)))
        new_name   == NewFilenameOf(title, author)
    IN  IF confidence = <<>> \/ new_name = <<>>
        THEN <<>>
        ELSE <<[original_filename |-> Str(original_filename),
                suggested_title   |-> title,
                suggested_author  |-> author,
                new_filename      |-> new_name[1],
                confidence        |-> confidence[1],
                approve           |-> Str(ApproveText(Approval(confidence[1].n))),
                language          |-> Get(result.language, Str(<<>>)),
                edition           |-> GetOrEmpty(result.edition),
                notes             |-> GetOrEmpty(result.notes)]>>

\* FIELDNAMES, lines 66-69
Fieldnames ==
    {"original_filename", "suggested_title", "suggested_author", "new_filename",
     "confidence", "approve", "language", "edition", "notes"}

\* csv.writer's text for a value: "" for None, str() for a number
Cell(v) ==
    IF v.t = "null" THEN Str(<<>>)
    ELSE IF v.t = "num" THEN NumText(v.n)
    ELSE v

\* lines 80-91: the row written for one record
WriteRow(entry) == [f \in Fieldnames |-> Cell(entry[f])]

\* lines 103-112: the record read from one row (confidence is numeric in
\* every row write_csv writes)
ReadRow(row) ==
    [row EXCEPT !["confidence"] = Float(row["confidence"])[1],
                !["approve"] = Str(NormalizeApprove(row["approve"].s))]

\* every result of the run goes through make_entry
MakeEntries ==
    /\ rv_pc = "results"
    /\ LET made == [i \in 1..Len(rv_results) |-> MakeEntry(<<"f">>, rv_results[i])]
       IN  IF \E i \in 1..Len(made) : made[i] = <<>>
           THEN rv_pc' = "raised" /\ UNCHANGED rv_entries
           ELSE /\ rv_entries' = [i \in 1..Len(made) |-> made[i][1]]
                /\ rv_pc' = "made"
    /\ UNCHANGED <<rv_results, rv_csv, rv_read>>

\* write_csv, lines 72-93
WriteCsv ==
    /\ rv_pc = "made"
    /\ rv_csv' = [i \in 1..Len(rv_entries) |-> WriteRow(rv_entries[i])]
    /\ rv_pc' = "written"
    /\ UNCHANGED <<rv_results, rv_entries, rv_read>>

\* read_csv, lines 96-113
ReadCsv ==
    /\ rv_pc = "written"
    /\ rv_read' = [i \in 1..Len(rv_csv) |-> ReadRow(rv_csv[i])]
    /\ rv_pc' = "read"
    /\ UNCHANGED <<rv_results, rv_entries, rv_csv>>

ReviewInit ==
    /\ rv_results \in UNION {[1..n -> Results] : n \in 0..MaxResults}
    /\ rv_entries = <<>>
    /\ rv_csv = <<>>
    /\ rv_read = <<>>
    /\ rv_pc = "results"
    /\ RenameIdle
    /\ RealtimeIdle
    /\ BatchIdle
    /\ ResumeIdle
    /\ ResolveIdle
    /\ SanitizeIdle

ReviewNext ==
    \/ MakeEntries /\ UNCHANGED <<programVars, resolveVars, sanitizeVars>>
    \/ WriteCsv /\ UNCHANGED <<programVars, resolveVars, sanitizeVars>>
    \/ ReadCsv /\ UNCHANGED <<programVars, resolveVars, sanitizeVars>>

SpecReview == ReviewInit /\ [][ReviewNext]_vars

----------------------------------------------------------------------------
\* RateLimiter

\* Sleeping lost: the caller goes on at once.
SleepUntilNow(now, last) == now

\* wait, lines 27-30: the time before which the caller does not go on
SleepUntil(now, last) ==
    LET elapsed == now - last
    IN  IF elapsed < Interval THEN now + (Interval - elapsed) ELSE now

----------------------------------------------------------------------------
\* analyze_realtime

Workers == 1..concurrency

\* lines 108-113
FilesToProcess(files, already) ==
    IF already # {} THEN SelectSeq(files, LAMBDA f : f \notin already) ELSE files

\* lines 105-124: the pool is created and every file to process is submitted
Submit ==
    /\ apc = "start"
    /\ queue' = FilesToProcess(pdf_files, already_done)
    /\ apc' = "collecting"
    /\ UNCHANGED <<started, parse_failed, extract_failed,
                   pdf_files, already_done, concurrency, wpc, wfile, lock_held,
                   clock, last_request, wwake, grants, sent, completed, rt_entries>>

\* A worker calling process_one for a task it leaves in the queue.
TakeTaskKeepsQueue(w) ==
    /\ apc = "collecting"
    /\ wpc[w] = "idle"
    /\ queue # <<>>
    /\ wfile' = [wfile EXCEPT ![w] = Head(queue)]
    /\ wpc' = [wpc EXCEPT ![w] = "wait"]
    /\ started' = Append(started, Head(queue))
    /\ UNCHANGED <<parse_failed, extract_failed, queue,
                   pdf_files, already_done, concurrency, apc, lock_held, clock,
                   last_request, wwake, grants, sent, completed, rt_entries>>

\* a pool worker takes the next task and calls process_one
TakeTask(w) ==
    /\ apc = "collecting"
    /\ wpc[w] = "idle"
    /\ queue # <<>>
    /\ wfile' = [wfile EXCEPT ![w] = Head(queue)]
    /\ queue' = Tail(queue)
    /\ wpc' = [wpc EXCEPT ![w] = "wait"]
    /\ started' = Append(started, Head(queue))
    /\ UNCHANGED <<parse_failed, extract_failed,
                   pdf_files, already_done, concurrency, apc, lock_held, clock,
                   last_request, wwake, grants, sent, completed, rt_entries>>

\* RateLimiter.wait, lines 26-29: the lock is taken, the clock read, the sleep begun
Acquire(w) ==
    /\ wpc[w] = "wait"
    /\ ~lock_held
    /\ lock_held' = TRUE
    /\ wwake' = [wwake EXCEPT ![w] = SleepUntil(clock, last_request)]
    /\ wpc' = [wpc EXCEPT ![w] = "locked"]
    /\ UNCHANGED <<started, parse_failed, extract_failed,
                   pdf_files, already_done, concurrency, apc, queue, wfile, clock,
                   last_request, grants, sent, completed, rt_entries>>

\* wait leaving its section without releasing the lock.
GrantKeepsLock(w) ==
    /\ wpc[w] = "locked"
    /\ clock >= wwake[w]
    /\ last_request' = clock
    /\ grants' = Append(grants, clock)
    /\ wpc' = [wpc EXCEPT ![w] = "extract"]
    /\ UNCHANGED <<started, parse_failed, extract_failed, lock_held,
                   pdf_files, already_done, concurrency, apc, queue, wfile, clock,
                   wwake, sent, completed, rt_entries>>

\* RateLimiter.wait, lines 30-31: the sleep is over, the timestamp is set to the
\* clock and the lock released; process_one goes on to analyze_single
Grant(w) ==
    /\ wpc[w] = "locked"
    /\ clock >= wwake[w]
    /\ last_request' = clock
    /\ grants' = Append(grants, clock)
    /\ lock_held' = FALSE
    /\ wpc' = [wpc EXCEPT ![w] = "extract"]
    /\ UNCHANGED <<started, parse_failed, extract_failed,
                   pdf_files, already_done, concurrency, apc, queue, wfile, clock,
                   wwake, sent, completed, rt_entries>>

\* analyze_single, lines 50-74: extraction and encoding end, after whatever time
\* they took, and the request goes out
Send(w) ==
    /\ wpc[w] = "extract"
    /\ sent' = Append(sent, clock)
    /\ wpc' = [wpc EXCEPT ![w] = "await"]
    /\ UNCHANGED <<started, parse_failed, extract_failed,
                   pdf_files, already_done, concurrency, apc, queue, wfile,
                   lock_held, clock, last_request, wwake, grants, completed,
                   rt_entries>>

\* analyze_single, lines 50-51 and 91-99: extraction or encoding raises
ExtractFails(w) ==
    /\ wpc[w] = "extract"
    /\ completed' = completed \cup {analyze_single(wfile[w], FALSE, NoResponse)}
    /\ extract_failed' = extract_failed \cup {wfile[w]}
    /\ wpc' = [wpc EXCEPT ![w] = "idle"]
    /\ UNCHANGED <<started, parse_failed,
                   pdf_files, already_done, concurrency, apc, queue, wfile,
                   lock_held, clock, last_request, wwake, grants, sent, rt_entries>>

\* analyze_single, lines 76-99: the service answers or fails, the future completes
Respond(w) ==
    /\ wpc[w] = "await"
    /\ \E resp \in Responses :
         /\ completed' = completed \cup {analyze_single(wfile[w], TRUE, resp)}
         /\ parse_failed' = IF resp.kind = "message" /\ ~JsonWithoutFences(resp.text)
                            THEN parse_failed \cup {wfile[w]}
                            ELSE parse_failed
    /\ wpc' = [wpc EXCEPT ![w] = "idle"]
    /\ UNCHANGED <<started, extract_failed,
                   pdf_files, already_done, concurrency, apc, queue, wfile,
                   lock_held, clock, last_request, wwake, grants, sent, rt_entries>>

\* lines 131-133: a result is appended unless it is None
Collected(es, result) == IF result # <<>> THEN Append(es, result[1]) ELSE es

\* lines 128-135: as_completed yields a finished future
Collect ==
    /\ apc = "collecting"
    /\ \E result \in completed :
         /\ rt_entries' = Collected(rt_entries, result)
         /\ completed' = completed \ {result}
    /\ UNCHANGED <<started, parse_failed, extract_failed,
                   pdf_files, already_done, concurrency, apc, queue, wpc, wfile,
                   lock_held, clock, last_request, wwake, grants, sent>>

\* lines 137-141: every future has been yielded
Return ==
    /\ apc = "collecting"
    /\ queue = <<>>
    /\ completed = {}
    /\ \A w \in Workers : wpc[w] = "idle"
    /\ apc' = "returned"
    /\ UNCHANGED <<started, parse_failed, extract_failed,
                   pdf_files, already_done, concurrency, queue, wpc, wfile,
                   lock_held, clock, last_request, wwake, grants, sent, completed,
                   rt_entries>>

\* time passes
Tick ==
    /\ apc = "collecting"
    /\ clock < MaxTime
    /\ clock' = clock + 1
    /\ UNCHANGED <<started, parse_failed, extract_failed,
                   pdf_files, already_done, concurrency, apc, queue, wpc, wfile,
                   lock_held, last_request, wwake, grants, sent, completed,
                   rt_entries>>

RealtimeInit ==
    /\ \E n \in 1..MaxFiles : pdf_files = [i \in 1..n |-> i]
    /\ already_done \in SUBSET {pdf_files[i] : i \in 1..Len(pdf_files)}
    /\ concurrency \in 1..MaxWorkers
    /\ apc = "start"
    /\ queue = <<>>
    /\ wpc = [w \in 1..concurrency |-> "idle"]
    /\ wfile = [w \in 1..concurrency |-> 0]
    /\ lock_held = FALSE
    /\ clock \in {0, Interval}
    /\ last_request = 0
    /\ wwake = [w \in 1..concurrency |-> 0]
    /\ grants = <<>>
    /\ sent = <<>>
    /\ completed = {}
    /\ rt_entries = <<>>
    /\ extract_failed = {}
    /\ parse_failed = {}
    /\ started = <<>>
    /\ RenameIdle
    /\ BatchIdle
    /\ ResumeIdle
    /\ PureIdle

RealtimeNext ==
    \/ Submit /\ UNCHANGED <<renameVars, batchVars, resumeVars, pureVars>>
    \/ \E w \in Workers : TakeTask(w) /\ UNCHANGED <<renameVars, batchVars, resumeVars, pureVars>>
    \/ \E w \in Workers : Acquire(w) /\ UNCHANGED <<renameVars, batchVars, resumeVars, pureVars>>
    \/ \E w \in Workers : Grant(w) /\ UNCHANGED <<renameVars, batchVars, resumeVars, pureVars>>
    \/ \E w \in Workers : Send(w) /\ UNCHANGED <<renameVars, batchVars, resumeVars, pureVars>>
    \/ \E w \in Workers : ExtractFails(w) /\ UNCHANGED <<renameVars, batchVars, resumeVars, pureVars>>
    \/ \E w \in Workers : Respond(w) /\ UNCHANGED <<renameVars, batchVars, resumeVars, pureVars>>
    \/ Collect /\ UNCHANGED <<renameVars, batchVars, resumeVars, pureVars>>
    \/ Return /\ UNCHANGED <<renameVars, batchVars, resumeVars, pureVars>>
    \/ Tick /\ UNCHANGED <<renameVars, batchVars, resumeVars, pureVars>>

SpecRealtime == RealtimeInit /\ [][RealtimeNext]_vars

\* The variables analyze_realtime leaves alone.
notRealtimeVars == <<renameVars, batchVars, resumeVars, pureVars>>

\* time.sleep, line 30: time passes while a caller sleeps inside wait, however
\* late it is
Sleep ==
    /\ \E w \in Workers : wpc[w] = "locked" /\ clock < wwake[w]
    /\ clock' = clock + 1
    /\ UNCHANGED <<started, parse_failed, extract_failed,
                   pdf_files, already_done, concurrency, apc, queue, wpc, wfile,
                   lock_held, last_request, wwake, grants, sent, completed,
                   rt_entries>>

RealtimeFairNext ==
    \/ RealtimeNext
    \/ Sleep /\ UNCHANGED notRealtimeVars

\* Every thread that can take a step eventually does: the main thread, each
\* worker of the pool, a sleep that ends, an extraction or a service call that
\* returns or fails.
RealtimeFairness ==
    /\ WF_vars(Submit /\ UNCHANGED notRealtimeVars)
    /\ WF_vars(Collect /\ UNCHANGED notRealtimeVars)
    /\ WF_vars(Return /\ UNCHANGED notRealtimeVars)
    /\ WF_vars(Sleep /\ UNCHANGED notRealtimeVars)
    /\ \A w \in 1..MaxWorkers :
         /\ WF_vars(w \in Workers /\ TakeTask(w) /\ UNCHANGED notRealtimeVars)
         /\ WF_vars(w \in Workers /\ Acquire(w) /\ UNCHANGED notRealtimeVars)
         /\ WF_vars(w \in Workers /\ Grant(w) /\ UNCHANGED notRealtimeVars)
         /\ WF_vars(w \in Workers /\ (Send(w) \/ ExtractFails(w))
                       /\ UNCHANGED notRealtimeVars)
         /\ WF_vars(w \in Workers /\ Respond(w) /\ UNCHANGED notRealtimeVars)

\* The most files analyze_realtime is given in the runs checked for termination.
MaxFairFiles == 2

RealtimeFairInit == RealtimeInit /\ Len(pdf_files) <= MaxFairFiles

SpecRealtimeFair == RealtimeFairInit /\ [][RealtimeFairNext]_vars /\ RealtimeFairness

----------------------------------------------------------------------------
\* analyze_batch, the batch at the service, get_batch_results

\* lines 163-167
BatchStart ==
    /\ bpc = "start"
    /\ batch_todo' = FilesToProcess(batch_files, batch_done)
    /\ requests' = <<>>
    /\ bi' = 1
    /\ bpc' = "preparing"
    /\ UNCHANGED <<stream_read, batch_files, batch_done, processing_status, result_stream,
                   batch_not_ready, batch_entries, batch_raised>>

\* lines 171-202 for one file: a request is built, unless extraction or encoding
\* raises, which is printed and nothing else
Prepared(reqs, name, extracted) == IF extracted THEN Append(reqs, name) ELSE reqs

\* lines 170-202: one iteration of the preparation loop
PrepareOne ==
    /\ bpc = "preparing"
    /\ bi <= Len(batch_todo)
    /\ \E extracted \in BOOLEAN :
         requests' = Prepared(requests, batch_todo[bi], extracted)
    /\ bi' = bi + 1
    /\ UNCHANGED <<stream_read, batch_files, batch_done, batch_todo, bpc, processing_status,
                   result_stream, batch_not_ready, batch_entries, batch_raised>>

\* lines 204-214: nothing to submit, or the batch is created
SubmitBatch ==
    /\ bpc = "preparing"
    /\ bi > Len(batch_todo)
    /\ IF requests = <<>>
       THEN bpc' = "no_batch" /\ UNCHANGED processing_status
       ELSE bpc' = "submitted" /\ processing_status' = "in_progress"
    /\ UNCHANGED <<stream_read, batch_files, batch_done, batch_todo, bi, requests,
                   result_stream, batch_not_ready, batch_entries, batch_raised>>

\* the service processes the next request of the batch; in a batch that is
\* being canceled the request's result is "canceled", with no message
ServiceAnswers ==
    /\ processing_status \in {"in_progress", "canceling"}
    /\ Len(result_stream) < Len(requests)
    /\ \E resp \in Responses :
         /\ processing_status = "canceling" => resp = NoResponse
         /\ result_stream' = Append(result_stream,
                [custom_id |-> requests[Len(result_stream) + 1], resp |-> resp])
    /\ UNCHANGED <<stream_read, batch_files, batch_done, batch_todo, bi, requests, bpc,
                   processing_status, batch_not_ready, batch_entries, batch_raised>>

\* the batch is canceled at the service while it is in progress
ServiceCancels ==
    /\ processing_status = "in_progress"
    /\ processing_status' = "canceling"
    /\ UNCHANGED <<stream_read, batch_files, batch_done, batch_todo, bi, requests, bpc,
                   result_stream, batch_not_ready, batch_entries, batch_raised>>

\* the service has processed every request
ServiceEnds ==
    /\ processing_status \in {"in_progress", "canceling"}
    /\ Len(result_stream) = Len(requests)
    /\ processing_status' = "ended"
    /\ UNCHANGED <<stream_read, batch_files, batch_done, batch_todo, bi, requests, bpc,
                   result_stream, batch_not_ready, batch_entries, batch_raised>>

\* get_batch_results, lines 232-235: the batch has not ended
GetBatchResultsNotReady ==
    /\ bpc = "submitted"
    /\ processing_status # "ended"
    /\ batch_not_ready' = TRUE
    /\ batch_entries' = <<>>
    /\ UNCHANGED <<stream_read, batch_files, batch_done, batch_todo, bi, requests, bpc,
                   processing_status, result_stream, batch_raised>>

\* lines 240-258 for one item: <<the record>>, or <<>> when make_entry raises
\* an exception that line 245 does not catch
BatchItem(item) ==
    IF item.resp.kind = "service_error"
    THEN <<make_entry(item.custom_id, "API_ERROR", 0, "error message")>>
    ELSE IF ParseRaises(item.resp)
         THEN <<make_entry(item.custom_id, "PARSE_ERROR", 0, "parser message")>>
         ELSE IF MakeEntryRaises(item.resp)
              THEN <<>>
              ELSE <<make_entry(item.custom_id, "Title", item.resp.confidence, "")>>

\* lines 237-260: the loop over the result stream; an exception ends it and
\* the records built so far are lost with the frame
RECURSIVE BatchLoop(_, _)
BatchLoop(stream, es) ==
    IF stream = <<>>
    THEN [entries |-> es, raised |-> FALSE]
    ELSE LET r == BatchItem(Head(stream))
         IN  IF r = <<>>
             THEN [entries |-> <<>>, raised |-> TRUE]
             ELSE BatchLoop(Tail(stream), Append(es, r[1]))

\* get_batch_results with the test of the status lost.
GetBatchResultsAnyStatus ==
    /\ bpc = "submitted"
    /\ LET r == BatchLoop(result_stream, <<>>)
       IN  /\ batch_entries' = r.entries
           /\ batch_raised' = r.raised
    /\ stream_read' = TRUE
    /\ bpc' = "retrieved"
    /\ UNCHANGED <<batch_files, batch_done, batch_todo, bi, requests,
                   processing_status, result_stream, batch_not_ready>>

\* get_batch_results, lines 228-260, on an ended batch
GetBatchResults ==
    /\ bpc = "submitted"
    /\ processing_status = "ended"
    /\ LET r == BatchLoop(result_stream, <<>>)
       IN  /\ batch_entries' = r.entries
           /\ batch_raised' = r.raised
    /\ stream_read' = TRUE
    /\ bpc' = "retrieved"
    /\ UNCHANGED <<batch_files, batch_done, batch_todo, bi, requests,
                   processing_status, result_stream, batch_not_ready>>

BatchInit ==
    /\ \E n \in 1..MaxBatchFiles : batch_files = [i \in 1..n |-> i]
    /\ batch_done \in SUBSET {batch_files[i] : i \in 1..Len(batch_files)}
    /\ batch_todo = <<>>
    /\ bi = 1
    /\ requests = <<>>
    /\ bpc = "start"
    /\ processing_status = "none"
    /\ result_stream = <<>>
    /\ batch_not_ready = FALSE
    /\ batch_entries = <<>>
    /\ batch_raised = FALSE
    /\ stream_read = FALSE
    /\ RenameIdle
    /\ RealtimeIdle
    /\ ResumeIdle
    /\ PureIdle

BatchNext ==
    \/ BatchStart /\ UNCHANGED <<renameVars, realtimeVars, resumeVars, pureVars>>
    \/ PrepareOne /\ UNCHANGED <<renameVars, realtimeVars, resumeVars, pureVars>>
    \/ SubmitBatch /\ UNCHANGED <<renameVars, realtimeVars, resumeVars, pureVars>>
    \/ ServiceAnswers /\ UNCHANGED <<renameVars, realtimeVars, resumeVars, pureVars>>
    \/ ServiceCancels /\ UNCHANGED <<renameVars, realtimeVars, resumeVars, pureVars>>
    \/ ServiceEnds /\ UNCHANGED <<renameVars, realtimeVars, resumeVars, pureVars>>
    \/ GetBatchResultsNotReady /\ UNCHANGED <<renameVars, realtimeVars, resumeVars, pureVars>>
    \/ GetBatchResults /\ UNCHANGED <<renameVars, realtimeVars, resumeVars, pureVars>>

SpecBatch == BatchInit /\ [][BatchNext]_vars

----------------------------------------------------------------------------
\* get_already_done (cli.py) and the filter of the run that resumes

Titles == {"ERROR", "PARSE_ERROR", "API_ERROR", "Some Real Title"}

ResumeFiles == 1..MaxResumeFiles

\* A row of a review CSV: `numeric` tells whether its confidence cell parses
\* as a float.
CsvRow == [original_filename : ResumeFiles, suggested_title : Titles,
           numeric : BOOLEAN]

CsvFiles == UNION {[1..n -> CsvRow] : n \in 0..MaxRows}

\* read_csv, review_file.py lines 96-113: <<the records>>, or <<>> when
\* float(row["confidence"]) raises
RECURSIVE ReadRows(_, _)
ReadRows(rows, es) ==
    IF rows = <<>>
    THEN <<es>>
    ELSE IF ~Head(rows).numeric
         THEN <<>>
         ELSE ReadRows(Tail(rows),
                       Append(es, [original_filename |-> Head(rows).original_filename,
                                   suggested_title |-> Head(rows).suggested_title]))

read_csv(rows) == ReadRows(rows, <<>>)

\* PARSE_ERROR forgotten among the error titles.
IsDoneTitleErrorOnly(title) == title # "ERROR"

\* cli.py line 34
IsDoneTitle(title) == title \notin {"ERROR", "PARSE_ERROR"}

\* cli.py lines 33-35
RECURSIVE AddDone(_, _)
AddDone(es, d) ==
    IF es = <<>>
    THEN d
    ELSE AddDone(Tail(es),
                 IF IsDoneTitle(Head(es).suggested_title)
                 THEN d \cup {Head(es).original_filename}
                 ELSE d)

\* cli.py lines 30-37: one CSV of the glob
ScanOne(rows, d) ==
    LET r == read_csv(rows)
    IN  IF r = <<>> THEN d ELSE AddDone(r[1], d)

\* Whether every row of a CSV can be read.
Readable(rows) == \A i \in 1..Len(rows) : rows[i].numeric

\* The files that have, in a CSV, a row whose title is one of `titles`.
FilesTitled(rows, titles) ==
    {rows[i].original_filename : i \in {k \in 1..Len(rows) : rows[k].suggested_title \in titles}}

\* cli.py lines 30-37: the next CSV of output_dir is read
ScanCsv ==
    /\ resume_pc = "scanning"
    /\ scanned < MaxDatasets
    /\ \E rows \in CsvFiles :
         /\ csv_rows' = rows
         /\ done' = ScanOne(rows, done)
         /\ has_real' = IF Readable(rows)
                        THEN has_real \cup FilesTitled(rows, Titles \ {"ERROR", "PARSE_ERROR"})
                        ELSE has_real
         /\ has_error' = IF Readable(rows)
                         THEN has_error \cup FilesTitled(rows, {"ERROR", "PARSE_ERROR"})
                         ELSE has_error
         /\ titles_of' = [f \in ResumeFiles |->
                titles_of[f] \cup {rows[i].suggested_title :
                                     i \in {k \in 1..Len(rows) : rows[k].original_filename = f}}]
    /\ scanned' = scanned + 1
    /\ UNCHANGED <<resume_pc, to_process>>

\* cli.py line 38: the glob is exhausted
ReturnDone ==
    /\ resume_pc = "scanning"
    /\ resume_pc' = "scanned"
    /\ UNCHANGED <<csv_rows, scanned, done, has_real, has_error, titles_of, to_process>>

\* The files the resuming run finds in pdf_dir.
ResumeFileSeq == [i \in 1..MaxResumeFiles |-> i]

\* cli.py line 61, api_client.py lines 108-113 (166-167 in batch mode)
ResumeFilter ==
    /\ resume_pc = "scanned"
    /\ to_process' = FilesToProcess(ResumeFileSeq, done)
    /\ resume_pc' = "filtered"
    /\ UNCHANGED <<csv_rows, scanned, done, has_real, has_error, titles_of>>

ResumeInit ==
    /\ csv_rows = <<>>
    /\ scanned = 0
    /\ done = {}
    /\ has_real = {}
    /\ has_error = {}
    /\ titles_of = [f \in ResumeFiles |-> {}]
    /\ resume_pc = "scanning"
    /\ to_process = <<>>
    /\ RenameIdle
    /\ RealtimeIdle
    /\ BatchIdle
    /\ PureIdle

ResumeNext ==
    \/ ScanCsv /\ UNCHANGED <<renameVars, realtimeVars, batchVars, pureVars>>
    \/ ReturnDone /\ UNCHANGED <<renameVars, realtimeVars, batchVars, pureVars>>
    \/ ResumeFilter /\ UNCHANGED <<renameVars, realtimeVars, batchVars, pureVars>>

SpecResume == ResumeInit /\ [][ResumeNext]_vars

----------------------------------------------------------------------------
\* Claims about rename_files, resolve_conflicts and apply_undo (SpecRename).

\* C1: once a rename run that is no dry run has been followed by apply_undo on
\* the log it saved, the directory holds exactly the names it held before the
\* run, with the same file behind each name.
C1_UndoRestoresDirectory ==
    (rpc = "undone" /\ undo_runs = 1) => dir = dir0

\* C2, first half: the resolved new names of two distinct approved records
\* differ case-insensitively.
C2_ResolvedNamesDistinct ==
    \A i, k \in 1..Len(approved) :
        i # k => Lower(approved[i].new_filename) # Lower(approved[k].new_filename)

\* C2, second half: no resolved new name equals, case-insensitively, the name of
\* a .pdf file that was in the directory at planning time, other than the
\* record's own original file.
C2_ResolvedNamesAvoidExisting ==
    \A i \in 1..Len(approved) : \A e \in dir0 :
        (/\ e.name.pdf
         /\ e \notin Lookup(dir0, caseSensitive, approved[i].original_filename))
        => Lower(approved[i].new_filename) # Lower(e.name)

\* C2: after resolve_conflicts the resolved names are distinct from one another
\* and from the .pdf files of the directory other than the record's own.
C2_NoCollisionAfterResolve ==
    rpc # "idle" => (C2_ResolvedNamesDistinct /\ C2_ResolvedNamesAvoidExisting)

\* C6: a dry run leaves the directory as it was, at every point of the run, and
\* every log entry it builds has status dry_run.
C6_DryRunChangesNothing ==
    (dry_run /\ rpc \in {"renaming", "renamed"}) =>
        /\ dir = dir0
        /\ \A i \in 1..Len(log_entries) : log_entries[i].status = "dry_run"

\* C6 witness: a dry run has finished and has logged a rename it would perform.
C6_Witness ==
    /\ dry_run
    /\ rpc = "renamed"
    /\ log_entries # <<>>
    /\ \E i \in 1..Len(log_entries) :
         Exists(dir, caseSensitive, log_entries[i].original)

\* C7: a second apply_undo with the same log, after the first has completed,
\* renames nothing and counts no error: every entry with status renamed is
\* skipped as not found.
C7_SecondUndoIsNoOp ==
    (rpc = "undone" /\ undo_runs = 2) => (reversed_count = 0 /\ undo_errors = 0)

----------------------------------------------------------------------------
\* Claims about analyze_realtime and the RateLimiter (SpecRealtime).

\* The records of rt_entries made for file f.
RecordsFor(f) ==
    {k \in 1..Len(rt_entries) : rt_entries[k].original_filename = f}

InputFiles == {pdf_files[i] : i \in 1..Len(pdf_files)}

\* C3: at no time does a file have two records or a file outside the input or
\* in already_done a record, and the list analyze_realtime returns holds exactly
\* one record for each input file that is not in already_done.
C3_OneRecordPerFile ==
    /\ \A k \in 1..Len(rt_entries) :
         rt_entries[k].original_filename \in InputFiles \ already_done
    /\ \A f \in InputFiles : Cardinality(RecordsFor(f)) <= 1
    /\ apc = "returned" =>
         \A f \in InputFiles \ already_done : Cardinality(RecordsFor(f)) = 1

\* C3 witness: analyze_realtime has returned, with a file skipped as already
\* done, records in another order than the input's, and a placeholder among them.
C3_Witness ==
    /\ apc = "returned"
    /\ already_done # {}
    /\ Len(rt_entries) >= 2
    /\ rt_entries[1].original_filename > rt_entries[2].original_filename
    /\ \E k \in 1..Len(rt_entries) : rt_entries[k].suggested_title = "ERROR"
    /\ \E k \in 1..Len(rt_entries) : rt_entries[k].suggested_title = "Title"

\* The 60-second window, in ticks.
Window == MaxPerMinute * Interval

\* The requests sent in the window that starts at t.
SentIn(t) == {k \in 1..Len(sent) : t <= sent[k] /\ sent[k] < t + Window}

\* C4: no window of 60 seconds holds more than max_per_minute requests sent to
\* the vision service.
C4_RequestsPerWindow ==
    \A t \in 0..MaxTime : Cardinality(SentIn(t)) <= MaxPerMinute

\* C5: at most one caller is inside wait's locked section, and two successive
\* grants are at least one interval apart.
C5_GrantsSerializedAndSpaced ==
    /\ Cardinality({w \in Workers : wpc[w] = "locked"}) <= 1
    /\ \A k \in 1..(Len(grants) - 1) : grants[k + 1] - grants[k] >= Interval

\* C5 witness: after a first grant, one caller sleeps inside the section while
\* another waits for the lock.
C5_Witness ==
    /\ grants # <<>>
    /\ \E w1, w2 \in Workers :
         /\ wpc[w1] = "locked"
         /\ wwake[w1] > clock
         /\ wpc[w2] = "wait"

----------------------------------------------------------------------------
\* Claims about the batch path (SpecBatch) and the resume set (SpecResume).

\* C8: get_batch_results on an ended batch returns, without raising, exactly one
\* record per item of the result stream, keyed by the item's custom id, whatever
\* the item's outcome.
C8_OneRecordPerBatchItem ==
    bpc = "retrieved" =>
        /\ ~batch_raised
        /\ Len(batch_entries) = Len(result_stream)
        /\ \A k \in 1..Len(result_stream) :
             batch_entries[k].original_filename = result_stream[k].custom_id

\* C9 in concurrent mode: when analyze_realtime returns, every file whose
\* extraction or encoding failed has an ERROR record with confidence 0, and
\* every other file to process has its record too.
C9_RealtimeHalf ==
    apc = "returned" =>
        /\ \A f \in extract_failed :
             \E k \in 1..Len(rt_entries) : rt_entries[k] = make_entry(f, "ERROR", 0, "error message")
        /\ \A f \in InputFiles \ already_done : RecordsFor(f) # {}

\* The files analyze_batch could not prepare.
BatchExtractFailed ==
    {batch_todo[i] : i \in 1..Len(batch_todo)} \ {requests[i] : i \in 1..Len(requests)}

\* C9 in batch mode: when get_batch_results has returned the batch's records,
\* every file whose extraction or encoding failed has an ERROR record with
\* confidence 0 among them.
C9_BatchHalf ==
    (bpc = "retrieved" /\ ~batch_raised) =>
        \A f \in BatchExtractFailed :
            \E k \in 1..Len(batch_entries) : batch_entries[k] = make_entry(f, "ERROR", 0, "error message")

\* C9: in both modes a file whose extraction or encoding fails is accounted for
\* by an ERROR placeholder record in the run's results.
C9_ExtractionFailureAccounted == C9_RealtimeHalf /\ C9_BatchHalf

\* C10: get_already_done's set is exactly the files that have a record with a
\* title other than ERROR and PARSE_ERROR in a readable review CSV, and the run
\* that resumes processes exactly the files outside it.
C10_AlreadyDoneExact ==
    /\ done = has_real
    /\ resume_pc = "filtered" =>
         \A f \in ResumeFiles :
             (\E i \in 1..Len(to_process) : to_process[i] = f) <=> f \notin has_real

\* C10 witness: the resuming run retries a file whose readable records are all
\* error placeholders, though an unreadable CSV holds a real title for it, and
\* skips another file that has a real title.
C10_Witness ==
    /\ resume_pc = "filtered"
    /\ ~Readable(csv_rows)
    /\ \E f \in has_error \ has_real :
         /\ f \in FilesTitled(csv_rows, {"Some Real Title"})
         /\ \E i \in 1..Len(to_process) : to_process[i] = f
    /\ \E g \in has_real : \A i \in 1..Len(to_process) : to_process[i] # g

----------------------------------------------------------------------------
\* Claims about resolve_conflicts on its own (SpecResolve).

\* Whether a key (a lower-cased name) was registered when record i was reached.
Registered(i, n) == Lower(n) \in rc_before[i]

\* C11: a record whose proposed name is not, case-insensitively, its own
\* original filename and is already registered gets the proposed name with the
\* suffix " (N)" before ".pdf", N the smallest integer >= 2 whose name is not
\* registered; a record whose proposed name is not registered keeps it.  With
\* Book.pdf the only Book name in the directory, k successive records of other
\* files proposing Book.pdf get Book (2).pdf ... Book (k+1).pdf in input order.
C11_SmallestFreeSuffix ==
    /\ \A i \in 1..Len(rc_resolved) :
         LET e == rc_entries[i]
             p == e.new_filename
             r == rc_resolved[i].new_filename
         IN  /\ rc_resolved[i].original_filename = e.original_filename
             /\ Lower(p) # Lower(e.original_filename) =>
                  IF Registered(i, p)
                  THEN \E N \in 2..(MaxResolve + 4) :
                         /\ r = Candidate(p, N)
                         /\ ~Registered(i, r)
                         /\ \A M \in 2..(N - 1) : Registered(i, Candidate(p, M))
                  ELSE r = p
    /\ ( /\ rc_pc = "returned"
         /\ Book \in rc_dir
         /\ Candidate(Book, 2) \notin rc_dir /\ Candidate(Book, 3) \notin rc_dir
         /\ \A i \in 1..Len(rc_entries) :
              rc_entries[i].new_filename = Book /\ rc_entries[i].original_filename # Book )
       => \A i \in 1..Len(rc_resolved) :
              rc_resolved[i].new_filename = Candidate(Book, i + 1)

\* C11 witness: with Book.pdf and Book (2).pdf in the directory, three records
\* have been resolved, one to Book (3).pdf (the smallest free suffix is not 2)
\* and one keeping a proposed name that was not registered.
C11_Witness ==
    /\ rc_pc = "returned"
    /\ Len(rc_resolved) = MaxResolve
    /\ {Book, Candidate(Book, 2)} \subseteq rc_dir
    /\ \E i \in 1..Len(rc_resolved) :
         /\ rc_entries[i].new_filename = Book
         /\ rc_resolved[i].new_filename = Candidate(Book, 3)
    /\ \E i \in 1..Len(rc_resolved) :
         /\ ~Registered(i, rc_entries[i].new_filename)
         /\ rc_resolved[i].new_filename = rc_entries[i].new_filename

----------------------------------------------------------------------------
\* Further claims about analyze_realtime (SpecRealtime).

\* The results of finished tasks, collected or not.
ResultsFor(f) ==
    {r \in completed : r # <<>> /\ r[1].original_filename = f}
      \cup {<<rt_entries[k]>> : k \in {j \in 1..Len(rt_entries) :
                                          rt_entries[j].original_filename = f}}

\* C12: in concurrent mode a file answered with text that is not valid JSON once
\* its fence lines are stripped gets a record with title PARSE_ERROR, confidence
\* 0, approval "review" and the parser's message in notes, and the other files
\* are still processed: at the return every file to process has its record.
C12_ParseErrorRecord ==
    /\ \A f \in parse_failed :
         /\ ResultsFor(f) # {}
         /\ \A r \in ResultsFor(f) :
              /\ r[1].suggested_title = "PARSE_ERROR"
              /\ r[1].confidence = 0
              /\ r[1].approve = "review"
              /\ r[1].notes = "parser message"
    /\ apc = "returned" => \A f \in InputFiles \ already_done : RecordsFor(f) # {}

\* C12 witness: a run of two or more files has returned, one of them answered
\* with text that is no JSON and another with a usable object.
C12_Witness ==
    /\ apc = "returned"
    /\ parse_failed # {}
    /\ \E k \in 1..Len(rt_entries) :
         /\ rt_entries[k].original_filename \notin parse_failed
         /\ rt_entries[k].suggested_title = "Title"

----------------------------------------------------------------------------
\* Claims about build_new_filename (SpecSanitize).

\* C15: for every title and author string the name build_new_filename returns
\* ends in ".pdf", holds none of the characters < > : " / \ | ? * and is at most
\* 244 characters long (the truncation length plus the four of ".pdf").
C15_SanitizedName ==
    sn_pc = "returned" =>
        /\ Len(sn_name) >= 4
        /\ SubSeq(sn_name, Len(sn_name) - 3, Len(sn_name)) = <<".", "p", "d", "f">>
        /\ \A i \in 1..Len(sn_name) :
             sn_name[i] \notin {"<", ">", ":", "\"", "/", "\\", "|", "?", "*"}
        /\ Len(sn_name) <= NameLimit + 4

\* C15 witness: build_new_filename has returned for a title with an invalid
\* character and an author, the joined name being longer than the limit.
C15_Witness ==
    /\ sn_pc = "returned"
    /\ \E i \in 1..Len(sn_title) : sn_title[i] \in Invalid
    /\ sn_author \notin {<<>>, Unknown}
    /\ Len(RemoveInvalid(sn_title)) + 3 + Len(RemoveInvalid(sn_author)) > NameLimit
    /\ Len(sn_name) = NameLimit + 4

----------------------------------------------------------------------------
\* Claims about make_entry, write_csv and read_csv (SpecReview).

\* The confidence of a result, in tenths, a missing one counting as 0.
ConfidenceOf(result) ==
    IF result.confidence = Absent THEN 0 ELSE result.confidence.n

\* C13: make_entry sets approve to "yes" exactly when the result's confidence
\* is at least 0.8, a missing confidence counting as 0 and 0.8 itself being
\* approved, and to "review" otherwise.
C13_ApprovalThreshold ==
    rv_pc \in {"made", "written", "read"} =>
        \A i \in 1..Len(rv_entries) :
            /\ rv_entries[i].approve \in {Str(Yes), Str(Review)}
            /\ rv_entries[i].approve = Str(Yes) <=> ConfidenceOf(rv_results[i]) >= 8

\* C13 witness: make_entry has built a record from a result without a
\* confidence and one from a result with confidence 0.8.
C13_Witness ==
    /\ rv_pc = "made"
    /\ \E i, k \in 1..Len(rv_entries) :
         /\ rv_results[i].confidence = Absent /\ rv_entries[i].approve = Str(Review)
         /\ rv_results[k].confidence = Num(8) /\ rv_entries[k].approve = Str(Yes)

\* C14: read_csv returns, for the file write_csv wrote from records that
\* make_entry built, the same records, field by field and in the same order.
C14_CsvRoundTrip == rv_pc = "read" => rv_read = rv_entries

----------------------------------------------------------------------------
\* Further claims about rename_files and apply_undo (SpecRename).

\* C16: rename_files returns one log entry per resolved approved record, in
\* input order, the records it skips (source missing, or source name equal to
\* the target name) included.
C16_OneLogEntryPerRecord ==
    rpc = "renamed" =>
        /\ Len(log_entries) = Len(approved)
        /\ \A i \in 1..Len(log_entries) :
             /\ log_entries[i].original = approved[i].original_filename
             /\ log_entries[i].new = approved[i].new_filename

\* A log of two renames in which the first's new name is the second's
\* original name.
ChainLog(log) ==
    /\ Len(log) = 2
    /\ log[1].status = "renamed" /\ log[2].status = "renamed"
    /\ log[1].new = log[2].original

\* Once the first undo of a chain a -> T, T -> Z is over, the file that was
\* behind a before the renames is behind a again.
ChainUnwound ==
    (rpc = "undone" /\ undo_runs = 1 /\ ChainLog(UndoLog)) =>
        \A f \in Lookup(dir0, caseSensitive, UndoLog[1].original) :
            [name |-> UndoLog[1].original, id |-> f.id] \in dir

\* apply_undo starts at the last entry of the log and goes down one entry at a
\* time, and changes the directory only at an entry with status renamed.
UndoOrder ==
    /\ (rpc # "undoing" /\ rpc' = "undoing") => uj' = Len(UndoLog)
    /\ (rpc = "undoing" /\ rpc' = "undoing") =>
         /\ uj' = uj - 1
         /\ dir' # dir => UndoLog[uj].status = "renamed"
    /\ (rpc = "undoing" /\ rpc' # "undoing") => uj = 0 /\ dir' = dir

\* C17: apply_undo renames back only for log entries with status renamed,
\* from the last entry to the first, so that a chain a -> T, T -> Z is unwound
\* to the first original name; other entries cause no filesystem operation.
C17_UndoReverseOrder == [][UndoOrder]_vars /\ []ChainUnwound

\* C17 witness: the first undo of a chain of two renames is over and has
\* reversed both.
C17_Witness ==
    /\ rpc = "undone"
    /\ undo_runs = 1
    /\ ChainLog(UndoLog)
    /\ reversed_count = 2

\* The rows of the reviewed CSV whose approve cell is 'yes' once trimmed and
\* lower-cased.
YesRows == {i \in 1..Len(csv_entries) : NormalizeApprove(csv_entries[i].approve) = Yes}

\* C18: rename_files works on the records whose approval, trimmed and
\* lower-cased, is 'yes' and on no other: the records it resolves and the
\* entries it logs are about such records, every rename has such a record's
\* original filename as its source, and a record with another approval
\* reserves no name: an approved record keeps a proposed name that neither a
\* .pdf file of the directory nor an earlier approved record has taken.
C18_OnlyApprovedRecords ==
    (rpc \in {"renaming", "renamed"}) =>
        /\ Len(approved) = Cardinality(YesRows)
        /\ \A k \in 1..Len(approved) : \E i \in YesRows :
             approved[k].original_filename = csv_entries[i].original_filename
        /\ \A k \in 1..Len(log_entries) : \E i \in YesRows :
             log_entries[k].original = csv_entries[i].original_filename
        /\ \A e \in dir0 : e \notin dir => \E i \in YesRows :
             e \in Lookup(dir0, caseSensitive, csv_entries[i].original_filename)
                \/ e \in Lookup(dir0, caseSensitive, csv_entries[i].new_filename)
                \/ \E k \in 1..Len(approved) :
                      e \in Lookup(dir0, caseSensitive, approved[k].new_filename)
        /\ \A i \in YesRows :
             LET p == csv_entries[i].new_filename
             IN  ( /\ \A e \in dir0 : e.name.pdf => Lower(e.name) # Lower(p)
                   /\ \A j \in YesRows : j < i =>
                        /\ Lower(csv_entries[j].new_filename) # Lower(p)
                        /\ \A k \in 1..Len(approved) :
                             approved[k].original_filename = csv_entries[j].original_filename
                                => Lower(approved[k].new_filename) # Lower(p) )
                 => \E k \in 1..Len(approved) :
                        /\ approved[k].original_filename = csv_entries[i].original_filename
                        /\ approved[k].new_filename = p

\* C18 witness: a row approved as " Yes " has been renamed to the name it
\* proposed, which an earlier row that is not approved proposed as well, and
\* the file of that earlier row is where it was.
C18_Witness ==
    /\ rpc = "renamed"
    /\ ~dry_run
    /\ Len(csv_entries) = 2
    /\ csv_entries[1].approve = Review
    /\ csv_entries[2].approve \notin {Yes, Review}
    /\ csv_entries[1].new_filename = csv_entries[2].new_filename
    /\ Exists(dir0, caseSensitive, csv_entries[1].original_filename)
    /\ Lookup(dir, caseSensitive, csv_entries[1].original_filename)
         = Lookup(dir0, caseSensitive, csv_entries[1].original_filename)
    /\ log_entries = <<[original |-> csv_entries[2].original_filename,
                        new |-> csv_entries[2].new_filename, status |-> "renamed"]>>

\* The tasks taken by a worker whose future is not done.
InProgress == Len(started) - Cardinality(completed) - Len(rt_entries)

\* C20: at every moment at most `concurrency` tasks are in progress (waiting
\* for or holding a grant, extracting, or awaiting the service), and each file
\* to process is started at most once.
C20_BoundedPool ==
    /\ InProgress = Cardinality({w \in Workers : wpc[w] # "idle"})
    /\ InProgress <= concurrency
    /\ \A i, k \in 1..Len(started) : i # k => started[i] # started[k]
    /\ \A i \in 1..Len(started) : started[i] \in InputFiles \ already_done

\* C20 witness: every worker of a pool of two is busy and a submitted task
\* waits in the queue.
C20_Witness ==
    /\ concurrency = MaxWorkers
    /\ \A w \in Workers : wpc[w] # "idle"
    /\ queue # <<>>

\* C19: under fair scheduling, with every extraction and service call
\* returning or failing, analyze_realtime returns with a record for every task
\* it submitted, and a worker that waits for the rate limiter or sleeps inside
\* it always gets its grant.
C19_RealtimeTerminates ==
    /\ <>(apc = "returned" /\ Len(rt_entries) = Len(FilesToProcess(pdf_files, already_done)))
    /\ \A w \in 1..MaxWorkers :
         (w \in Workers /\ wpc[w] \in {"wait", "locked"})
            ~> (w \in Workers /\ wpc[w] = "extract")

\* C19 witness: a run of a full pool has returned after every file was
\* granted its request, the last grant after a sleep that ended past the
\* clock's last free tick.
C19_Witness ==
    /\ apc = "returned"
    /\ concurrency = MaxWorkers
    /\ Len(grants) = MaxFairFiles
    /\ grants[Len(grants)] > MaxTime

----------------------------------------------------------------------------
\* Further claims about the batch path (SpecBatch).

\* C21: while the batch's processing status is anything other than ended,
\* get_batch_results returns no records and does not ask for the item
\* results; records come only from a batch that has ended.
C21_NothingBeforeEnded ==
    /\ processing_status # "ended" =>
         /\ ~stream_read
         /\ batch_entries = <<>>
         /\ bpc # "retrieved"
    /\ (batch_not_ready /\ bpc = "submitted") => batch_entries = <<>>

\* C21 witness: get_batch_results has answered "not done yet" for a batch
\* that is being canceled and has item results already.
C21_Witness ==
    /\ batch_not_ready
    /\ bpc = "submitted"
    /\ processing_status = "canceling"
    /\ result_stream # <<>>
    /\ batch_entries = <<>>
    /\ ~stream_read

----------------------------------------------------------------------------
\* Further claims about rename_files (SpecRename).

\* C22: every rename performed appends its log entry when it is performed,
\* and a run that is not a dry run and has performed a rename ends by
\* writing its whole log, every entry renamed or error; a dry run writes no log.
C22_LogWritten ==
    [][/\ (rpc = "renaming" /\ dir' # dir) =>
            /\ ri <= Len(approved)
            /\ log_entries' = Append(log_entries, LogEntry(approved[ri], "renamed"))
       /\ (rpc = "renaming" /\ rpc' = "renamed") =>
            IF dry_run
            THEN saved_log' = saved_log
            ELSE (\E i \in 1..Len(log_entries) : log_entries[i].status = "renamed") =>
                    /\ saved_log' = Append(saved_log, log_entries)
                    /\ \A i \in 1..Len(log_entries) :
                          log_entries[i].status \in {"renamed", "error"}
      ]_vars

\* C22 witness: a finished run that renamed one file, failed on another and
\* wrote both entries.
C22_Witness ==
    /\ rpc = "renamed"
    /\ ~dry_run
    /\ Len(log_entries) = 2
    /\ log_entries[1].status = "renamed"
    /\ log_entries[2].status = "error"
    /\ saved_log = <<log_entries>>

\* C22 witness of the dry run: two renames shown, nothing written.
C22_DryRunWitness ==
    /\ rpc = "renamed"
    /\ dry_run
    /\ Len(log_entries) = 2
    /\ saved_log = <<>>

\* C23: a rename run loses no file: every file that was in the directory
\* before rename_files is in it during and after the run, under some name.
C23_NoFileLost ==
    rpc \in {"renaming", "renamed"} =>
        \A e \in dir0 : \E x \in dir : x.id = e.id

\* C24: when a rename run is terminated after it has performed a rename,
\* every rename performed has an entry with status renamed in a written log.
C24_PerformedRenamesPersisted ==
    rpc = "terminated" =>
        \A i \in 1..Len(log_entries) :
            log_entries[i].status = "renamed" =>
                \E k \in 1..Len(saved_log) : \E j \in 1..Len(saved_log[k]) :
                    saved_log[k][j] = log_entries[i]

----------------------------------------------------------------------------
\* Further claims about resuming (SpecResume).

\* The titles of the error placeholder records.
PlaceholderTitles == {"ERROR", "PARSE_ERROR", "API_ERROR"}

\* C25: on resume, a file all of whose earlier records are error placeholders
\* (ERROR, PARSE_ERROR or API_ERROR) is not in already_done and is among the
\* files submitted again.
C25_PlaceholdersAnalyzedAgain ==
    resume_pc = "filtered" =>
        \A f \in ResumeFiles :
            (titles_of[f] # {} /\ titles_of[f] \subseteq PlaceholderTitles) =>
                /\ f \notin done
                /\ \E i \in 1..Len(to_process) : to_process[i] = f

----------------------------------------------------------------------------
\* Analysis followed by rename_files on the CSV it wrote, with no edit of the
\* CSV in between.

\* The name of each file of pdf_dir, in the order of get_pdf_files (sorted by
\* name): A.pdf, a (2).pdf, a.pdf, b (4).pdf, ...
PdfName(f) ==
    [stem |-> IF f <= 3 THEN "a" ELSE "b",
     up   |-> (f = 1),
     sfx  |-> IF f \in {1, 3} THEN <<>> ELSE <<f>>,
     pdf  |-> TRUE]

\* build_new_filename on the title of a record with author Unknown: the
\* title and ".pdf"
TitleName(title) == Name(title, TRUE, TRUE)

\* write_csv, review_file.py lines 72-93: the rows of the records, in the
\* columns rename_files uses
ReviewRows(es) ==
    [i \in 1..Len(es) |->
        [original_filename |-> PdfName(es[i].original_filename),
         new_filename      |-> TitleName(es[i].suggested_title),
         approve           |-> ApproveText(es[i].approve)]]

\* The directory that holds the files given to the analysis.
PdfDir(files) == DirOf({PdfName(files[i]) : i \in 1..Len(files)})

\* cmd_analyze, cli.py lines 70-72, has written the records of a realtime
\* run; cmd_rename (lines 76-92) is started on that CSV and directory
RenameAfterRealtime ==
    /\ apc = "returned"
    /\ rpc = "off"
    /\ rt_entries # <<>>
    /\ csv_entries' = ReviewRows(rt_entries)
    /\ dir' = PdfDir(pdf_files)
    /\ dir0' = dir'
    /\ caseSensitive' \in BOOLEAN
    /\ WellFormedDir(dir', caseSensitive')
    /\ rpc' = "start"
    /\ UNCHANGED <<entries, dry_run, approved, ri, log_entries, saved_log, uj,
                   reversed_count, undo_errors, undo_runs>>
    /\ UNCHANGED <<realtimeVars, batchVars, resumeVars, pureVars>>

\* cmd_batch_results, cli.py lines 128-130, has written the records of a
\* batch; cmd_rename is started on that CSV and directory
RenameAfterBatch ==
    /\ bpc = "retrieved"
    /\ rpc = "off"
    /\ batch_entries # <<>>
    /\ csv_entries' = ReviewRows(batch_entries)
    /\ dir' = PdfDir(batch_files)
    /\ dir0' = dir'
    /\ caseSensitive' \in BOOLEAN
    /\ WellFormedDir(dir', caseSensitive')
    /\ rpc' = "start"
    /\ UNCHANGED <<entries, dry_run, approved, ri, log_entries, saved_log, uj,
                   reversed_count, undo_errors, undo_runs>>
    /\ UNCHANGED <<realtimeVars, batchVars, resumeVars, pureVars>>

PipelineInit == RealtimeInit \/ BatchInit

PipelineNext ==
    \/ RealtimeNext
    \/ BatchNext
    \/ RenameAfterRealtime
    \/ RenameAfterBatch
    \/ ReadReviewed /\ UNCHANGED <<realtimeVars, batchVars, resumeVars, pureVars>>
    \/ RenameStart /\ UNCHANGED <<realtimeVars, batchVars, resumeVars, pureVars>>
    \/ RenameStep /\ UNCHANGED <<realtimeVars, batchVars, resumeVars, pureVars>>
    \/ RenameFinish /\ UNCHANGED <<realtimeVars, batchVars, resumeVars, pureVars>>

SpecPipeline == PipelineInit /\ [][PipelineNext]_vars

\* The records the analysis has produced, of either mode.
Produced == rt_entries \o batch_entries

\* The files whose record is an error placeholder.
FailedNames ==
    {PdfName(Produced[i].original_filename) :
        i \in {k \in 1..Len(Produced) : Produced[k].suggested_title \in PlaceholderTitles}}

\* C26: every error placeholder record (title ERROR, PARSE_ERROR or
\* API_ERROR) has confidence 0 and approval review, and rename_files, run on
\* the CSV as written, neither selects nor renames the file of one: the file
\* keeps its name.
C26_FailedFilesNotRenamed ==
    /\ \A i \in 1..Len(Produced) :
          Produced[i].suggested_title \in PlaceholderTitles =>
              /\ Produced[i].confidence = 0
              /\ Produced[i].approve = "review"
    /\ rpc # "off" =>
          /\ \A i \in 1..Len(approved) :
                approved[i].original_filename \notin FailedNames
          /\ \A i \in 1..Len(log_entries) :
                log_entries[i].original \notin FailedNames
          /\ \A e \in dir : e.id \in FailedNames => e.name = e.id

\* C26 witness: a run that is no dry run has renamed a file that was analysed
\* and has finished, with another file's record an error placeholder.
C26_Witness ==
    /\ rpc = "renamed"
    /\ ~dry_run
    /\ FailedNames # {}
    /\ \E i \in 1..Len(log_entries) : log_entries[i].status = "renamed"

\* C26 witness of the batch mode, with an API_ERROR placeholder.
C26_BatchWitness ==
    /\ C26_Witness
    /\ \E i \in 1..Len(batch_entries) : batch_entries[i].suggested_title = "API_ERROR"

====
